---- MODULE Spec2Model ----
(***************************************************************************)
(* Model of cuttlefish-api (src/main.py): the problem validation done by   *)
(* dacite.from_dict over the frozen dataclasses, the two request handlers  *)
(* that store a problem (RequirementsResource.on_post and                  *)
(* ScheduleResource.on_put), and the plan decoder (iter_appliance_tasks,   *)
(* iter_battery_tasks, iter_tasks) served by TasksResource.on_get.         *)
(*                                                                         *)
(* JSON values are modelled structurally: a JSON array is a sequence, a    *)
(* JSON object a record, null in an "int | None" list the empty tuple <<>> *)
(* and an int n there the tuple <<n>>.  A float is modelled by an integer  *)
(* (only its sign is ever tested by the code).                             *)
(***************************************************************************)
EXTENDS Integers, Sequences, FiniteSets, TLC

VARIABLES
    problems,   \* rows of table problems, in problem_id order
    requests,   \* rows of table requests, in request_id order
    uuids,      \* number of uuid4() values drawn so far
    request,    \* the request being served by the last handler run
    response,   \* what that handler left in the falcon response
    issued,     \* history: <<media, resource>> of every 200 answer of a submission
    call,       \* the arguments of a direct call of a pure function
    ret         \* the outcome of that call

vars == <<problems, requests, uuids, request, response, issued, call, ret>>

----------------------------------------------------------------------------
(* Bounds of the model.                                                    *)

MaxLaneLen == 6
MaxCycle == 3
MaxPlanLen == 4
MaxAppliances == 2
MaxRequests == 3

----------------------------------------------------------------------------
(* Program constants.                                                      *)

\* src/main.py:19
DURATIONS == <<2, 3, 1, 8>>

\* `from data import APPLIANCES` (src/main.py:14): the label table itself is
\* not among the sources; it is taken as a table of distinct device names,
\* none of them "Battery", aligned with DURATIONS.  Two labels are modelled,
\* so that DURATIONS[1] and DURATIONS[2] are the cycle durations in use.
APPLIANCES == <<"Appliance0", "Appliance1">>

\* src/cuttlefish_api/data.py:5-13 (the numeric encoding of the enums)
BatteryActions == {-1, 0, 1}
ApplianceActions == {0, 1}

----------------------------------------------------------------------------
(* itertools.groupby followed by `sum(1 for _ in group)`: the maximal runs *)
(* of equal values as <<value, length>> pairs, left to right.              *)

RECURSIVE RunLen(_, _)
RunLen(s, i) ==
    IF i < Len(s) /\ s[i + 1] = s[i] THEN 1 + RunLen(s, i + 1) ELSE 1

RECURSIVE GroupsFrom(_, _)
GroupsFrom(s, i) ==
    IF i > Len(s) THEN <<>>
    ELSE LET n == RunLen(s, i)
         IN  <<[key |-> s[i], n |-> n]>> \o GroupsFrom(s, i + n)

groupby(s) == GroupsFrom(s, 1)

----------------------------------------------------------------------------
(* Generators.  A generator run to exhaustion is its list of yielded items *)
(* plus whether an AssertionError ended it.                                *)

Gen(items, raised) == [items |-> items, raised |-> raised]

\* Variant of Cycles: one task spanning the whole run (the decoder before
\* cycle durations were introduced, src/main.py:57-65).
CyclesWholeRun(appliance_label, timestep, cycle_duration, n) ==
    IF n = 0 THEN <<>>
    ELSE <<[device |-> appliance_label, action |-> "On",
            start |-> timestep, duration |-> n * cycle_duration]>>

\* `for _ in range(n): yield {...}; timestep += cycle_duration`
RECURSIVE Cycles(_, _, _, _)
Cycles(appliance_label, timestep, cycle_duration, n) ==
    IF n = 0 THEN <<>>
    ELSE <<[device |-> appliance_label, action |-> "On",
            start |-> timestep, duration |-> cycle_duration]>>
         \o Cycles(appliance_label, timestep + cycle_duration, cycle_duration, n - 1)

\* Variant of OffAdvance: the cursor is not moved over an OFF run.
OffAdvanceForgotten(timestep, action_duration) == timestep

\* `else: timestep += action_duration`
OffAdvance(timestep, action_duration) == timestep + action_duration

RECURSIVE ApplianceLoop(_, _, _, _, _)
ApplianceLoop(appliance_label, groups, g, timestep, cycle_duration) ==
    IF g > Len(groups) THEN Gen(<<>>, FALSE)
    ELSE LET appliance_action == groups[g].key
             action_duration == groups[g].n
         IN  IF appliance_action # 0
             THEN IF action_duration % cycle_duration # 0
                  THEN Gen(<<>>, TRUE)
                  ELSE LET rest == ApplianceLoop(appliance_label, groups, g + 1,
                                                 timestep + action_duration, cycle_duration)
                       IN  Gen(Cycles(appliance_label, timestep, cycle_duration,
                                      action_duration \div cycle_duration) \o rest.items,
                               rest.raised)
             ELSE ApplianceLoop(appliance_label, groups, g + 1,
                                OffAdvance(timestep, action_duration), cycle_duration)

\* Variant of iter_appliance_tasks: the assert statement is not executed, a
\* run of length L yields L // cycle_duration tasks and the cursor moves by
\* that many cycles.
RECURSIVE ApplianceLoopUnchecked(_, _, _, _, _)
ApplianceLoopUnchecked(appliance_label, groups, g, timestep, cycle_duration) ==
    IF g > Len(groups) THEN Gen(<<>>, FALSE)
    ELSE LET n == groups[g].n \div cycle_duration
         IN  IF groups[g].key # 0
             THEN Gen(Cycles(appliance_label, timestep, cycle_duration, n)
                      \o ApplianceLoopUnchecked(appliance_label, groups, g + 1,
                                                timestep + n * cycle_duration,
                                                cycle_duration).items,
                      FALSE)
             ELSE ApplianceLoopUnchecked(appliance_label, groups, g + 1,
                                         timestep + groups[g].n, cycle_duration)

iter_appliance_tasks_unchecked(appliance_label, appliance_plan, cycle_duration) ==
    ApplianceLoopUnchecked(appliance_label, groupby(appliance_plan), 1, 0, cycle_duration)

iter_appliance_tasks(appliance_label, appliance_plan, cycle_duration) ==
    ApplianceLoop(appliance_label, groupby(appliance_plan), 1, 0, cycle_duration)

RECURSIVE BatteryLoop(_, _, _)
BatteryLoop(groups, g, timestep) ==
    IF g > Len(groups) THEN <<>>
    ELSE LET battery_action == groups[g].key
             duration == groups[g].n
             rest == BatteryLoop(groups, g + 1, timestep + duration)
         IN  IF battery_action # 0
             THEN <<[device |-> "Battery",
                     action |-> IF battery_action = -1 THEN "Discharge" ELSE "Charge",
                     start |-> timestep, duration |-> duration]>> \o rest
             ELSE rest

\* Variant of iter_battery_tasks: `timestep += duration` indented under the
\* `if`, so that only non-OFF runs move the cursor.
RECURSIVE BatteryLoopSkipOff(_, _, _)
BatteryLoopSkipOff(groups, g, timestep) ==
    IF g > Len(groups) THEN <<>>
    ELSE LET battery_action == groups[g].key
             duration == groups[g].n
         IN  IF battery_action # 0
             THEN <<[device |-> "Battery",
                     action |-> IF battery_action = -1 THEN "Discharge" ELSE "Charge",
                     start |-> timestep, duration |-> duration]>>
                  \o BatteryLoopSkipOff(groups, g + 1, timestep + duration)
             ELSE BatteryLoopSkipOff(groups, g + 1, timestep)

iter_battery_tasks_skip_off(battery_plan) ==
    Gen(BatteryLoopSkipOff(groupby(battery_plan), 1, 0), FALSE)

iter_battery_tasks(battery_plan) ==
    Gen(BatteryLoop(groupby(battery_plan), 1, 0), FALSE)

\* [action["appliances"][appliance_index] for action in plan]
ApplianceLane(plan, appliance_index) ==
    [t \in 1..Len(plan) |-> plan[t].appliances[appliance_index]]

\* [action["battery"] for action in plan]
BatteryLane(plan) == [t \in 1..Len(plan) |-> plan[t].battery]

\* the `for appliance_index, appliance_label in enumerate(APPLIANCES)` loop
\* (appliance_index is 1-based here)
RECURSIVE TasksLoop(_, _)
TasksLoop(plan, appliance_index) ==
    IF appliance_index > Len(APPLIANCES) THEN Gen(<<>>, FALSE)
    ELSE LET head == iter_appliance_tasks(APPLIANCES[appliance_index],
                                          ApplianceLane(plan, appliance_index),
                                          DURATIONS[appliance_index])
         IN  IF head.raised THEN head
             ELSE LET rest == TasksLoop(plan, appliance_index + 1)
                  IN  Gen(head.items \o rest.items, rest.raised)

\* Variant of iter_tasks: the battery's tasks are yielded first.
iter_tasks_battery_first(plan) ==
    LET battery == iter_battery_tasks(BatteryLane(plan))
        appliances == TasksLoop(plan, 1)
    IN  Gen(battery.items \o appliances.items, appliances.raised)

\* the appliances' tasks, then `yield from iter_battery_tasks(...)`
iter_tasks(plan) ==
    LET appliances == TasksLoop(plan, 1)
    IN  IF appliances.raised THEN appliances
        ELSE Gen(appliances.items \o iter_battery_tasks(BatteryLane(plan)).items, FALSE)

----------------------------------------------------------------------------
(* Problem validation: dacite.from_dict(HomeParameters, request.media).    *)
(* from_dict builds the fields in declaration order (horizon, battery,     *)
(* appliances), nested dataclasses first, and runs each __post_init__ when *)
(* the object is constructed; the first failing step raises and ends the   *)
(* construction.  The request media is taken to be type-correct JSON with  *)
(* every key present; media.order is the order of its top-level keys.      *)

FieldOrder == <<"horizon", "battery", "appliances">>

ToSet(s) == {s[k] : k \in 1..Len(s)}

Step(line, error, ok) == [line |-> line, error |-> error, ok |-> ok]

\* BatteryParameters.__post_init__
BatterySteps(b) ==
    << Step(126, "AssertionError", b.capacity > 0),
       Step(127, "AssertionError", b.rate > 0),
       Step(128, "AssertionError", 0 <= b.initial_level /\ b.initial_level <= b.capacity),
       Step(129, "AssertionError", 0 <= b.min_required_level /\ b.min_required_level <= b.capacity) >>

\* WindowParameters: field timesteps (set[int]) is built from a JSON array,
\* which only Config(cast=[..., set]) turns into a set; then __post_init__
WindowSteps(w, cast_set) ==
    << Step(175, "WrongTypeError", cast_set),
       Step(179, "AssertionError", w.min_required_cycles >= 0) >>

\* Variant of isdisjoint: the two windows are compared for inequality.
differs(timesteps_i, timesteps_j) == ToSet(timesteps_i) # ToSet(timesteps_j)

\* window_parameters_i.timesteps.isdisjoint(window_parameters_j.timesteps)
isdisjoint(timesteps_i, timesteps_j) == ToSet(timesteps_i) \cap ToSet(timesteps_j) = {}

\* all(... for i, ... for j, ... if i != j)
WindowsDisjoint(windows) ==
    \A i \in 1..Len(windows) : \A j \in 1..Len(windows) :
        i # j => isdisjoint(windows[i].timesteps, windows[j].timesteps)

\* 0 < dependency < math.inf, or None
DependencyOk(dependency) == dependency = <<>> \/ 0 < dependency[1]

RECURSIVE WindowListSteps(_, _, _)
WindowListSteps(windows, j, cast_set) ==
    IF j > Len(windows) THEN <<>>
    ELSE WindowSteps(windows[j], cast_set) \o WindowListSteps(windows, j + 1, cast_set)

\* ApplianceParameters: its windows are built first, then __post_init__
ApplianceSteps(a, cast_set) ==
    WindowListSteps(a.min_required_cycles, 1, cast_set) \o
    << Step(191, "AssertionError", a.duration > 0),
       Step(192, "AssertionError", a.rate > 0),
       Step(193, "AssertionError", WindowsDisjoint(a.min_required_cycles)),
       Step(194, "AssertionError",
            \A k \in 1..Len(a.dependencies) : DependencyOk(a.dependencies[k])) >>

RECURSIVE ApplianceListSteps(_, _, _)
ApplianceListSteps(appliances, i, cast_set) ==
    IF i > Len(appliances) THEN <<>>
    ELSE ApplianceSteps(appliances[i], cast_set)
         \o ApplianceListSteps(appliances, i + 1, cast_set)

\* Variant of HomeSteps: the horizon is asserted before the nested objects
\* are built.
HomeStepsHorizonFirst(data, cast_set) ==
    << Step(210, "AssertionError", data.horizon > 0) >>
    \o BatterySteps(data.battery)
    \o ApplianceListSteps(data.appliances, 1, cast_set)

\* HomeParameters: battery, then appliances, then its own __post_init__
HomeSteps(data, cast_set) ==
    BatterySteps(data.battery)
    \o ApplianceListSteps(data.appliances, 1, cast_set)
    \o << Step(210, "AssertionError", data.horizon > 0) >>

\* the validated object: same fields, each window's timesteps a set
HomeParametersOf(data) ==
    [horizon |-> data.horizon,
     battery |-> data.battery,
     appliances |->
        [i \in 1..Len(data.appliances) |->
            [label |-> data.appliances[i].label,
             duration |-> data.appliances[i].duration,
             rate |-> data.appliances[i].rate,
             min_required_cycles |->
                [j \in 1..Len(data.appliances[i].min_required_cycles) |->
                    [timesteps |-> ToSet(data.appliances[i].min_required_cycles[j].timesteps),
                     min_required_cycles |->
                        data.appliances[i].min_required_cycles[j].min_required_cycles]],
             dependencies |-> data.appliances[i].dependencies]]]

NoValue == [horizon |-> 0, battery |-> <<>>, appliances |-> <<>>]

from_dict(data, cast_set) ==
    LET steps == HomeSteps(data, cast_set)
        bad == {k \in 1..Len(steps) : ~steps[k].ok}
    IN  IF bad = {}
        THEN [ok |-> TRUE, value |-> HomeParametersOf(data), error |-> "", line |-> 0]
        ELSE LET first == CHOOSE k \in bad : \A m \in bad : k <= m
             IN  [ok |-> FALSE, value |-> NoValue,
                  error |-> steps[first].error, line |-> steps[first].line]

----------------------------------------------------------------------------
(* Serialisation: json.dumps(..., separators=(",", ":")).  A document is   *)
(* modelled by its structure; the key order and every array's element      *)
(* order are part of it, as they are part of the text.                     *)

\* sorted(obj) for a set
RECURSIVE sorted(_)
sorted(S) ==
    IF S = {} THEN <<>>
    ELSE LET m == CHOOSE x \in S : \A y \in S : x <= y
         IN  <<m>> \o sorted(S \ {m})

\* dumps(request.media, separators=(",", ":")): the media as submitted
DumpsMedia(media) ==
    [order |-> media.order,
     horizon |-> media.horizon,
     battery |-> media.battery,
     appliances |->
        [i \in 1..Len(media.appliances) |->
            [label |-> media.appliances[i].label,
             duration |-> media.appliances[i].duration,
             rate |-> media.appliances[i].rate,
             min_required_cycles |->
                [j \in 1..Len(media.appliances[i].min_required_cycles) |->
                    [timesteps |-> media.appliances[i].min_required_cycles[j].timesteps,
                     min_required_cycles |->
                        media.appliances[i].min_required_cycles[j].min_required_cycles]],
             dependencies |-> media.appliances[i].dependencies]]]

\* dumps(home_parameters, cls=HomeParametersEncoder, separators=(",", ":")):
\* asdict gives the fields in declaration order, a set is written sorted
DumpsHome(home_parameters) ==
    [order |-> FieldOrder,
     horizon |-> home_parameters.horizon,
     battery |-> home_parameters.battery,
     appliances |->
        [i \in 1..Len(home_parameters.appliances) |->
            [label |-> home_parameters.appliances[i].label,
             duration |-> home_parameters.appliances[i].duration,
             rate |-> home_parameters.appliances[i].rate,
             min_required_cycles |->
                [j \in 1..Len(home_parameters.appliances[i].min_required_cycles) |->
                    [timesteps |->
                        sorted(home_parameters.appliances[i].min_required_cycles[j].timesteps),
                     min_required_cycles |->
                        home_parameters.appliances[i].min_required_cycles[j].min_required_cycles]],
             dependencies |-> home_parameters.appliances[i].dependencies]]]

----------------------------------------------------------------------------
(* Storage (SQLite file shared.db).  A problems row keeps problem_id,      *)
(* problem_data, resource_uuid and solution_data; a requests row keeps     *)
(* request_id and problem_id.  The created_at / updated_at stamps are      *)
(* written but never read and are left out.  solution_data is written by   *)
(* the solver process, which is not part of this program.                  *)

Null == [null |-> TRUE, plan |-> <<>>]
Solution(plan) == [null |-> FALSE, plan |-> plan]

NoResponse ==
    [status |-> "", raised |-> "", has_text |-> FALSE, tasks |-> <<>>, resource |-> 0]

\* str(uuid4()): a value no earlier call returned
uuid4 == uuids + 1

\* SELECT ... WHERE <column> = ? ... fetchone(): the matching row of lowest rowid
Matching(column, value) ==
    {r \in 1..Len(problems) : problems[r][column] = value}

FetchOne(rows) == CHOOSE r \in rows : \A q \in rows : r <= q

\* the body shared by RequirementsResource.on_post and ScheduleResource.on_put
\* after their from_dict call, which differs in its Config only
Submit(handler, media, home_parameters) ==
    /\ request' = [handler |-> handler, arg |-> media]
    /\ IF ~home_parameters.ok
       THEN /\ response' = [NoResponse EXCEPT !.raised = home_parameters.error]
            /\ UNCHANGED <<problems, requests, uuids, issued>>
       ELSE LET found == Matching("problem_data", DumpsMedia(media))
                row == [problem_id |-> Len(problems) + 1,
                        problem_data |-> DumpsHome(home_parameters.value),
                        resource_uuid |-> uuid4,
                        solution_data |-> Null]
                result == IF found = {} THEN row ELSE problems[FetchOne(found)]
            IN  /\ problems' = IF found = {} THEN Append(problems, row) ELSE problems
                /\ uuids' = IF found = {} THEN uuids + 1 ELSE uuids
                /\ requests' = Append(requests,
                                      [request_id |-> Len(requests) + 1,
                                       problem_id |-> result.problem_id])
                /\ response' = [NoResponse EXCEPT !.status = "200 OK",
                                                  !.has_text = TRUE,
                                                  !.resource = result.resource_uuid]
                /\ issued' = Append(issued, <<media, result.resource_uuid>>)
    /\ UNCHANGED <<call, ret>>

\* Variant of on_post: the requests row is written before the payload is
\* validated, so a rejected submission leaves a row without a problem.
on_post_logs_first(media) ==
    /\ Len(requests) < MaxRequests
    /\ IF from_dict(media, TRUE).ok
       THEN Submit("RequirementsResource.on_post", media, from_dict(media, TRUE))
       ELSE /\ request' = [handler |-> "RequirementsResource.on_post", arg |-> media]
            /\ requests' = Append(requests,
                                  [request_id |-> Len(requests) + 1, problem_id |-> 0])
            /\ response' = [NoResponse EXCEPT !.raised = from_dict(media, TRUE).error]
            /\ UNCHANGED <<problems, uuids, issued, call, ret>>

\* RequirementsResource.on_post: Config(cast=[tuple, set])
on_post(media) ==
    /\ Len(requests) < MaxRequests
    /\ Submit("RequirementsResource.on_post", media, from_dict(media, TRUE))

\* ScheduleResource.on_put: Config(cast=[tuple])
on_put(media) ==
    /\ Len(requests) < MaxRequests
    /\ Submit("ScheduleResource.on_put", media, from_dict(media, FALSE))

\* TasksResource.on_get
on_get(problem_id) ==
    /\ request' = [handler |-> "TasksResource.on_get", arg |-> problem_id]
    /\ LET found == Matching("resource_uuid", problem_id)
       IN  IF found = {}
           THEN response' = [NoResponse EXCEPT !.status = "404 Not Found"]
           ELSE LET result == problems[FetchOne(found)].solution_data
                IN  IF result.null \/ result.plan = <<>>
                    THEN response' = [NoResponse EXCEPT !.status = "503 Service Unavailable"]
                    ELSE LET tasks == iter_tasks(result.plan)
                         IN  IF tasks.raised
                             THEN response' = [NoResponse EXCEPT !.status = "200 OK",
                                                                 !.raised = "AssertionError"]
                             ELSE response' = [NoResponse EXCEPT !.status = "200 OK",
                                                                 !.has_text = TRUE,
                                                                 !.tasks = tasks.items]
    /\ UNCHANGED <<problems, requests, uuids, issued, call, ret>>

----------------------------------------------------------------------------
(* Inputs.                                                                 *)

Media(order, horizon, battery, appliances) ==
    [order |-> order, horizon |-> horizon, battery |-> battery, appliances |-> appliances]

Window(timesteps, min_required_cycles) ==
    [timesteps |-> timesteps, min_required_cycles |-> min_required_cycles]

Appliance(label, duration, rate, windows, dependencies) ==
    [label |-> label, duration |-> duration, rate |-> rate,
     min_required_cycles |-> windows, dependencies |-> dependencies]

GoodBattery == [capacity |-> 2, rate |-> 1, initial_level |-> 1, min_required_level |-> 0]

Batteries ==
    {GoodBattery,
     [GoodBattery EXCEPT !.capacity = 0],
     [GoodBattery EXCEPT !.rate = 0],
     [GoodBattery EXCEPT !.initial_level = -1],
     [GoodBattery EXCEPT !.min_required_level = 3]}

Horizons == {0, 1, 2}

WindowLists ==
    {<<>>,
     <<Window(<<0>>, 1), Window(<<1>>, 0)>>,
     <<Window(<<1, 0>>, 1), Window(<<1>>, 1)>>,
     <<Window(<<0>>, -1)>>}

DependencyLists == {<< <<>>, <<1>> >>, << <<0>> >>}

DurationRates == {<<2, 1>>, <<0, 1>>, <<2, 0>>}

Labels == <<"Washer", "Dryer", "Dishwasher", "Vehicle">>

ApplianceShapes ==
    {Appliance("", dr[1], dr[2], w, d) :
        dr \in DurationRates, w \in WindowLists, d \in DependencyLists}

WithLabels(shapes) ==
    [i \in 1..Len(shapes) |-> [shapes[i] EXCEPT !.label = Labels[i]]]

Payloads ==
    {Media(FieldOrder, h, b, WithLabels(shapes)) :
        h \in Horizons, b \in Batteries,
        shapes \in UNION {[1..n -> ApplianceShapes] : n \in 0..MaxAppliances}}

\* submissions to the two storing handlers: accepted and rejected ones, in
\* and out of the encoder's canonical form
Washer(windows) == Appliance(Labels[1], 2, 1, windows, << <<>>, <<1>> >>)

StorePayloads ==
    {Media(FieldOrder, 2, GoodBattery, <<Washer(<<Window(<<0, 1>>, 1)>>)>>),
     Media(FieldOrder, 2, GoodBattery, <<Washer(<<Window(<<1, 0>>, 1)>>)>>),
     Media(<<"battery", "horizon", "appliances">>, 2, GoodBattery,
           <<Washer(<<Window(<<0, 1>>, 1)>>)>>),
     Media(FieldOrder, 2, GoodBattery, <<Washer(<<>>)>>),
     Media(<<"appliances", "battery", "horizon">>, 2, GoodBattery, <<Washer(<<>>)>>),
     Media(FieldOrder, 0, GoodBattery, <<Washer(<<>>)>>),
     Media(FieldOrder, 2, GoodBattery,
           <<Washer(<<Window(<<0, 1>>, 1), Window(<<1>>, 1)>>)>>)}

Lanes(actions) == UNION {[1..n -> actions] : n \in 0..MaxLaneLen}

HomeActions ==
    [battery : BatteryActions, appliances : [1..Len(APPLIANCES) -> ApplianceActions]]

Plans == UNION {[1..n -> HomeActions] : n \in 0..MaxPlanLen}

----------------------------------------------------------------------------
(* Specifications.                                                         *)

NoRequest == [handler |-> "", arg |-> <<>>]
NoCall == [fn |-> ""]
NoRet == [done |-> FALSE]

EmptyStore ==
    /\ problems = <<>>
    /\ requests = <<>>
    /\ uuids = 0
    /\ issued = <<>>

NoTraffic ==
    /\ request = NoRequest
    /\ response = NoResponse

UnchangedService == UNCHANGED <<problems, requests, uuids, request, response, issued>>

\* --- the storing handlers over one database
Init ==
    /\ EmptyStore
    /\ NoTraffic
    /\ call = NoCall
    /\ ret = NoRet

Post == \E media \in StorePayloads : on_post(media)

Put == \E media \in StorePayloads : on_put(media)

Next == Post \/ Put

Spec == Init /\ [][Next]_vars

\* --- TasksResource.on_get over a stored problem whose solution the solver
\* has (or has not yet) written
StoredMedia == Media(FieldOrder, 2, GoodBattery, <<Washer(<<>>)>>)

InitTasks ==
    /\ \E solution_data \in {Null} \cup {Solution(plan) : plan \in Plans} :
          problems = <<[problem_id |-> 1,
                        problem_data |-> DumpsHome(HomeParametersOf(StoredMedia)),
                        resource_uuid |-> 1,
                        solution_data |-> solution_data]>>
    /\ requests = <<[request_id |-> 1, problem_id |-> 1]>>
    /\ uuids = 1
    /\ issued = << <<StoredMedia, 1>> >>
    /\ NoTraffic
    /\ call = NoCall
    /\ ret = NoRet

Get == \E problem_id \in 1..(uuids + 1) : on_get(problem_id)

NextTasks == Get

SpecTasks == InitTasks /\ [][NextTasks]_vars

\* --- iter_appliance_tasks called on one lane
InitAppliance ==
    /\ EmptyStore
    /\ NoTraffic
    /\ \E appliance_plan \in Lanes(ApplianceActions), cycle_duration \in 1..MaxCycle :
          call = [fn |-> "iter_appliance_tasks",
                  appliance_label |-> APPLIANCES[1],
                  appliance_plan |-> appliance_plan,
                  cycle_duration |-> cycle_duration]
    /\ ret = NoRet

CallIterApplianceTasks ==
    /\ ~ret.done
    /\ LET tasks == iter_appliance_tasks(call.appliance_label, call.appliance_plan,
                                         call.cycle_duration)
       IN  ret' = [done |-> TRUE, items |-> tasks.items, raised |-> tasks.raised]
    /\ UNCHANGED call
    /\ UnchangedService

NextAppliance == CallIterApplianceTasks

SpecAppliance == InitAppliance /\ [][NextAppliance]_vars

\* --- iter_battery_tasks called on one lane
InitBattery ==
    /\ EmptyStore
    /\ NoTraffic
    /\ \E battery_plan \in Lanes(BatteryActions) :
          call = [fn |-> "iter_battery_tasks", battery_plan |-> battery_plan]
    /\ ret = NoRet

CallIterBatteryTasks ==
    /\ ~ret.done
    /\ LET tasks == iter_battery_tasks(call.battery_plan)
       IN  ret' = [done |-> TRUE, items |-> tasks.items, raised |-> tasks.raised]
    /\ UNCHANGED call
    /\ UnchangedService

NextBattery == CallIterBatteryTasks

SpecBattery == InitBattery /\ [][NextBattery]_vars

\* --- from_dict called on one payload, under either handler's Config
InitValidate ==
    /\ EmptyStore
    /\ NoTraffic
    /\ \E data \in Payloads : call = [fn |-> "from_dict", data |-> data]
    /\ ret = NoRet

Validate(cast_set) ==
    /\ ret' = [done |-> TRUE, cast_set |-> cast_set,
               home_parameters |-> from_dict(call.data, cast_set)]
    /\ UNCHANGED call
    /\ UnchangedService

\* as RequirementsResource.on_post calls it
ValidatePost ==
    /\ ~ret.done
    /\ Validate(TRUE)

\* as ScheduleResource.on_put calls it
ValidatePut ==
    /\ ~ret.done
    /\ Validate(FALSE)

NextValidate == ValidatePost \/ ValidatePut

SpecValidate == InitValidate /\ [][NextValidate]_vars

----------------------------------------------------------------------------
(* Properties of the lane decoders.                                        *)

\* the maximal runs of equal values of a lane, as <<s, L>>: L timesteps from
\* offset s (0-based), stated without reference to groupby
MaximalRuns(lane) ==
    {r \in (0..(Len(lane) - 1)) \X (1..Len(lane)) :
        /\ r[1] + r[2] <= Len(lane)
        /\ \A k \in (r[1] + 1)..(r[1] + r[2]) : lane[k] = lane[r[1] + 1]
        /\ r[1] = 0 \/ lane[r[1]] # lane[r[1] + 1]
        /\ r[1] + r[2] = Len(lane) \/ lane[r[1] + r[2] + 1] # lane[r[1] + 1]}

NonOffRuns(lane) == {r \in MaximalRuns(lane) : lane[r[1] + 1] # 0}

Aligned(lane, cycle_duration) ==
    \A r \in NonOffRuns(lane) : r[2] % cycle_duration = 0

Increasing(items) ==
    \A i \in 1..Len(items) : \A j \in 1..Len(items) :
        i < j => items[i].start < items[j].start

\* C1: when every maximal ON run of the lane has a length divisible by
\* cycle_duration, iter_appliance_tasks yields, for each ON run of length L
\* from s, exactly L / cycle_duration tasks with action "On", the given
\* label, duration cycle_duration and starts s, s + cycle_duration, ...,
\* s + L - cycle_duration, in order; OFF runs yield nothing.
C1_CyclesPerRun ==
    (ret.done /\ Aligned(call.appliance_plan, call.cycle_duration)) =>
        LET lane == call.appliance_plan
            c == call.cycle_duration
            runs == NonOffRuns(lane)
            expected == UNION {{r[1] + k * c : k \in 0..((r[2] \div c) - 1)} : r \in runs}
        IN  /\ ~ret.raised
            /\ Len(ret.items) = Cardinality(expected)
            /\ Increasing(ret.items)
            /\ \A i \in 1..Len(ret.items) :
                  /\ ret.items[i].start \in expected
                  /\ ret.items[i] = [device |-> call.appliance_label, action |-> "On",
                                     start |-> ret.items[i].start, duration |-> c]
            /\ \A r \in runs :
                  Cardinality({i \in 1..Len(ret.items) :
                                  /\ r[1] <= ret.items[i].start
                                  /\ ret.items[i].start < r[1] + r[2]}) = r[2] \div c

\* an aligned lane with several ON runs, one of them of several cycles, decoded
C1_Witness ==
    /\ ret.done
    /\ Aligned(call.appliance_plan, call.cycle_duration)
    /\ Cardinality(NonOffRuns(call.appliance_plan)) >= 2
    /\ \E r \in NonOffRuns(call.appliance_plan) : r[2] \div call.cycle_duration >= 2
    /\ Len(ret.items) >= 3

\* C7: when iter_appliance_tasks ends without AssertionError, the tasks lie
\* inside the lane, every ON timestep is covered by exactly one task and no
\* OFF timestep by any, so marking the tasks' timesteps ON rebuilds the lane.
C7_CoverageRebuildsLane ==
    (ret.done /\ ~ret.raised) =>
        LET lane == call.appliance_plan
            covering(t) == {i \in 1..Len(ret.items) :
                               /\ ret.items[i].start <= t
                               /\ t < ret.items[i].start + ret.items[i].duration}
        IN  /\ \A i \in 1..Len(ret.items) :
                  /\ 0 <= ret.items[i].start
                  /\ ret.items[i].duration > 0
                  /\ ret.items[i].start + ret.items[i].duration <= Len(lane)
            /\ \A t \in 0..(Len(lane) - 1) : Cardinality(covering(t)) = lane[t + 1]
            /\ [t \in 1..Len(lane) |-> IF covering(t - 1) # {} THEN 1 ELSE 0] = lane

\* a lane with OFF timesteps before and between its ON runs, decoded
C7_Witness ==
    /\ ret.done
    /\ ~ret.raised
    /\ Len(ret.items) >= 2
    /\ call.appliance_plan[1] = 0
    /\ Cardinality(NonOffRuns(call.appliance_plan)) >= 2

\* C3: iter_battery_tasks yields exactly one task per maximal run of equal
\* non-OFF actions, in lane order: device "Battery", action "Discharge" for
\* -1 and "Charge" for 1, start the run's first timestep, duration its length.
C3_OneTaskPerRun ==
    ret.done =>
        LET lane == call.battery_plan
            runs == NonOffRuns(lane)
        IN  /\ ~ret.raised
            /\ Len(ret.items) = Cardinality(runs)
            /\ Increasing(ret.items)
            /\ \A i \in 1..Len(ret.items) :
                  \E r \in runs :
                      ret.items[i] =
                          [device |-> "Battery",
                           action |-> IF lane[r[1] + 1] = -1 THEN "Discharge" ELSE "Charge",
                           start |-> r[1], duration |-> r[2]]

\* a CHARGE run directly followed by a DISCHARGE run, after an OFF run
C3_Witness ==
    /\ ret.done
    /\ call.battery_plan # <<>>
    /\ call.battery_plan[1] = 0
    /\ \E t \in 1..(Len(call.battery_plan) - 1) :
          /\ call.battery_plan[t] = 1
          /\ call.battery_plan[t + 1] = -1
          /\ \E i \in 1..(Len(ret.items) - 1) :
                /\ ret.items[i].action = "Charge"
                /\ ret.items[i + 1].action = "Discharge"
                /\ ret.items[i + 1].start = t

----------------------------------------------------------------------------
(* Properties of TasksResource.on_get.                                     *)

\* the solution on_get reads for its request
ServedSolution == problems[FetchOne(Matching("resource_uuid", request.arg))].solution_data

Decoding ==
    /\ request.handler = "TasksResource.on_get"
    /\ Matching("resource_uuid", request.arg) # {}
    /\ ~ServedSolution.null
    /\ ServedSolution.plan # <<>>

Misaligned(plan, k) == ~Aligned(ApplianceLane(plan, k), DURATIONS[k])

\* C2: when some appliance lane of the stored plan has a maximal ON run
\* whose length is no multiple of that appliance's cycle duration, on_get
\* ends with AssertionError and no task list, partial or not, is written to
\* the response.
C2_MisalignedIsFatal ==
    (Decoding /\ \E k \in 1..Len(APPLIANCES) : Misaligned(ServedSolution.plan, k)) =>
        /\ response.raised = "AssertionError"
        /\ ~response.has_text
        /\ response.tasks = <<>>

\* the first appliance has an aligned ON run followed by a misaligned one,
\* so tasks had been yielded when the assertion failed
C2_Witness ==
    /\ Decoding
    /\ response.raised = "AssertionError"
    /\ \E r \in NonOffRuns(ApplianceLane(ServedSolution.plan, 1)) :
          /\ r[2] % DURATIONS[1] = 0
          /\ \E q \in NonOffRuns(ApplianceLane(ServedSolution.plan, 1)) :
                r[1] < q[1] /\ q[2] % DURATIONS[1] # 0

DeviceRank(device) ==
    IF device = "Battery" THEN Len(APPLIANCES) + 1
    ELSE CHOOSE k \in 1..Len(APPLIANCES) : APPLIANCES[k] = device

\* C4: a task list written by on_get is ordered by device (the appliances in
\* APPLIANCES order, the battery last) and, within one device, by strictly
\* increasing start.
C4_DeviceMajorTimeMinor ==
    (request.handler = "TasksResource.on_get" /\ response.has_text) =>
        \A i \in 1..Len(response.tasks) : \A j \in 1..Len(response.tasks) :
            i < j =>
                /\ DeviceRank(response.tasks[i].device) <= DeviceRank(response.tasks[j].device)
                /\ response.tasks[i].device = response.tasks[j].device =>
                      response.tasks[i].start < response.tasks[j].start

\* a decoded plan with two tasks of the first appliance, one of the second
\* and two of the battery
C4_Witness ==
    /\ request.handler = "TasksResource.on_get"
    /\ response.has_text
    /\ Cardinality({i \in 1..Len(response.tasks) :
                       response.tasks[i].device = APPLIANCES[1]}) >= 2
    /\ \E i \in 1..Len(response.tasks) : response.tasks[i].device = APPLIANCES[2]
    /\ Cardinality({i \in 1..Len(response.tasks) :
                       response.tasks[i].device = "Battery"}) >= 2

----------------------------------------------------------------------------
(* Properties of validation.                                               *)

Indices(seq) == 1..Len(seq)

Overlapping(a) ==
    \E i \in Indices(a.min_required_cycles) : \E j \in Indices(a.min_required_cycles) :
        /\ i # j
        /\ \E t \in ToSet(a.min_required_cycles[i].timesteps) :
              t \in ToSet(a.min_required_cycles[j].timesteps)

BadDependency(a) ==
    \E k \in Indices(a.dependencies) : a.dependencies[k] # <<>> /\ a.dependencies[k][1] <= 0

Failure(rank, line, error) == [rank |-> rank, line |-> line, error |-> error]

When(condition, failure) == IF condition THEN {failure} ELSE {}

\* every failing step of the construction of one payload, ranked in the
\* order of construction: the battery, then each appliance (its windows, its
\* duration, rate, window disjointness, dependencies), then the horizon
ApplianceFailures(a, slot, cast_set) ==
    UNION {When(~cast_set, Failure(slot + 2 * j - 1, 175, "WrongTypeError"))
           \cup When(a.min_required_cycles[j].min_required_cycles < 0,
                     Failure(slot + 2 * j, 179, "AssertionError"))
           : j \in Indices(a.min_required_cycles)}
    \cup When(a.duration <= 0, Failure(slot + 901, 191, "AssertionError"))
    \cup When(a.rate <= 0, Failure(slot + 902, 192, "AssertionError"))
    \cup When(Overlapping(a), Failure(slot + 903, 193, "AssertionError"))
    \cup When(BadDependency(a), Failure(slot + 904, 194, "AssertionError"))

Failures(data, cast_set) ==
    LET b == data.battery
    IN  When(b.capacity <= 0, Failure(1, 126, "AssertionError"))
        \cup When(b.rate <= 0, Failure(2, 127, "AssertionError"))
        \cup When(b.initial_level \notin 0..b.capacity, Failure(3, 128, "AssertionError"))
        \cup When(b.min_required_level \notin 0..b.capacity,
                  Failure(4, 129, "AssertionError"))
        \cup UNION {ApplianceFailures(data.appliances[i], 1000 * i, cast_set)
                    : i \in Indices(data.appliances)}
        \cup When(data.horizon <= 0,
                  Failure(1000 * (Len(data.appliances) + 1), 210, "AssertionError"))

\* C6 (as amended): from_dict raises for the first failing step in the order
\* of construction: the battery's four assertions, then for each appliance
\* in order its windows (each window's min_required_cycles >= 0), its
\* duration, its rate, the disjointness of its windows and its dependencies,
\* and the horizon last; it succeeds when no step fails.
C6_FirstFailureInConstructionOrder ==
    ret.done =>
        LET failures == Failures(call.data, ret.cast_set)
            home_parameters == ret.home_parameters
        IN  /\ home_parameters.ok <=> failures = {}
            /\ ~home_parameters.ok =>
                  \E f \in failures :
                      /\ \A g \in failures : f.rank <= g.rank
                      /\ home_parameters.line = f.line
                      /\ home_parameters.error = f.error

\* a payload with a bad horizon and a bad appliance, rejected for the appliance
C6_Witness ==
    /\ ret.done
    /\ ret.cast_set
    /\ call.data.horizon <= 0
    /\ \E f \in Failures(call.data, TRUE) : f.line \in 191..194
    /\ ret.home_parameters.line \in 191..194

\* the five kinds of check in the order the claim gives them
Phase(line) ==
    CASE line \in 126..129 -> 1
      [] line \in 191..192 -> 2
      [] line = 193 -> 3
      [] line = 194 -> 4
      [] line = 210 -> 5
      [] OTHER -> 0

\* C6 (as claimed): the failure raised is the one of the earliest violated
\* kind in the order battery parameters, appliance parameters (duration,
\* rate), window disjointness, dependency well-formedness, horizon.
C6_FirstFailureInPhaseOrder ==
    (/\ ret.done
     /\ ret.cast_set
     /\ \A f \in Failures(call.data, TRUE) : Phase(f.line) # 0
     /\ Failures(call.data, TRUE) # {}) =>
        \A f \in Failures(call.data, TRUE) :
            Phase(ret.home_parameters.line) <= Phase(f.line)

\* C8: in every HomeParameters that from_dict returns, the windows of each
\* appliance have pairwise disjoint timesteps sets, and a payload in which
\* two windows of one appliance share a timestep is rejected.
C8_AcceptedWindowsDisjoint ==
    ret.done =>
        /\ ret.home_parameters.ok =>
              \A a \in ToSet(ret.home_parameters.value.appliances) :
                  \A i \in Indices(a.min_required_cycles) :
                      \A j \in Indices(a.min_required_cycles) :
                          i # j => a.min_required_cycles[i].timesteps
                                   \cap a.min_required_cycles[j].timesteps = {}
        /\ (\E a \in ToSet(call.data.appliances) : Overlapping(a)) =>
              ~ret.home_parameters.ok

\* a payload whose only defect is an overlap, rejected by the assertion on it
C8_Witness ==
    /\ ret.done
    /\ ret.cast_set
    /\ \E a \in ToSet(call.data.appliances) : Overlapping(a)
    /\ ~ret.home_parameters.ok
    /\ ret.home_parameters.line = 193
    /\ \A f \in Failures(call.data, TRUE) : f.line = 193

\* C9: in every HomeParameters that from_dict returns, every window's
\* timesteps lie in 0 .. horizon - 1.
C9_AcceptedWindowsWithinHorizon ==
    (ret.done /\ ret.home_parameters.ok) =>
        \A a \in ToSet(ret.home_parameters.value.appliances) :
            \A w \in ToSet(a.min_required_cycles) :
                w.timesteps \subseteq 0..(ret.home_parameters.value.horizon - 1)

----------------------------------------------------------------------------
(* Properties of the storing handlers.                                     *)

\* C5: any two accepted submissions of the same payload were answered with
\* the same resource identifier, and no two problems rows hold the same
\* problem.
C5_IdenticalSubmissionsDeduplicated ==
    /\ \A i \in Indices(issued) : \A j \in Indices(issued) :
          issued[i][1] = issued[j][1] => issued[i][2] = issued[j][2]
    /\ \A r \in Indices(problems) : \A q \in Indices(problems) :
          r # q => problems[r].problem_data # problems[q].problem_data

\* whether a served submission passes from_dict, from the payload alone
Submitted(req) ==
    req.handler \in {"RequirementsResource.on_post", "ScheduleResource.on_put"}

Passes(req) == Failures(req.arg, req.handler = "RequirementsResource.on_post") = {}

\* C10: a submission that fails validation leaves problems and requests as
\* they were and is answered with no resource identifier; an accepted one
\* appends exactly one requests row, whose problem_id is that of a problems
\* row, and is answered with that row's resource_uuid.
C10_RejectedTouchesNothing ==
    [][Submitted(request') =>
          /\ ~Passes(request') =>
                /\ problems' = problems
                /\ requests' = requests
                /\ uuids' = uuids
                /\ ~response'.has_text
                /\ response'.resource = 0
          /\ Passes(request') =>
                /\ Len(requests') = Len(requests) + 1
                /\ SubSeq(requests', 1, Len(requests)) = requests
                /\ \E r \in Indices(problems') :
                      /\ problems'[r].problem_id = requests'[Len(requests')].problem_id
                      /\ problems'[r].resource_uuid = response'.resource
                /\ SubSeq(problems', 1, Len(problems)) = problems
                /\ Len(problems') \in {Len(problems), Len(problems) + 1}]_vars

\* a rejected submission served after an accepted one
C10_Witness ==
    /\ Submitted(request)
    /\ ~Passes(request)
    /\ response.raised # ""
    /\ problems # <<>>
    /\ requests # <<>>

====
